---- MODULE Spec2Model ----
(***************************************************************************)
(* Changeable Properties Protocol (chprops): the Server engine, its object *)
(* store and membership/subscription bookkeeping (src/chprops/server.py),  *)
(* the Client engine and its token-correlated requests                     *)
(* (src/chprops/client.py), and the stream session that turns each         *)
(* received frame into a task (src/chprops/stream.py).                     *)
(*                                                                         *)
(* One server process runs one asyncio event loop: `ready` is its FIFO     *)
(* queue of tasks.  Connection 1 has a Client engine as its peer, and      *)
(* connection 2 a peer that writes protocol frames directly.               *)
(***************************************************************************)
EXTENDS Integers, Sequences, FiniteSets, TLC

\* ------------------------------------------------------------------ bounds
\* What the environment does in one run: client calls, frames written by the
\* direct peer, and add_object calls and assignments by the application.
MaxInputs == 3

\* ------------------------------------------------------------- vocabulary
Servers == {1, 2}
ClientConn == 1
PeerConn == 2
Heap == {"U1", "U2", "T", "N"}
Universe(s) == IF s = 1 THEN "U1" ELSE "U2"
\* The application adds T to server s under the id s, so that the two
\* servers know the shared object under different ids.
IdOf(s) == s
\* The id under which the application later adds the object N.
NewId == 3
NoToken == 0

\* A property value.  k = "int": the integer v; k = "str": the string s;
\* k = "ref": a reference to the list object lists[v] (a Python list is shared
\* by reference); k = "list": the list l by value, as JSON carries it;
\* k = "none": no value.
Val(k, v, l, s) == [k |-> k, v |-> v, l |-> l, s |-> s]
IntVal(n) == Val("int", n, <<>>, "")
StrVal(s) == Val("str", 0, <<>>, s)
RefVal(i) == Val("ref", i, <<>>, "")
ListVal(l) == Val("list", 0, l, "")
NoVal == Val("none", 0, <<>>, "")

\* A frame: a flat field mapping.  Fields a frame type does not carry are
\* blank; mut is history (the mutation an update frame was sent for).
Frame(mtype, token, object, property, value, properties, status, mut) ==
    [mtype |-> mtype, token |-> token, object |-> object, property |-> property,
     value |-> value, properties |-> properties, status |-> status, mut |-> mut]
NoFrame == Frame("", NoToken, 0, "", NoVal, <<>>, "", 0)

InSeq(x, seq) == \E i \in 1..Len(seq) : seq[i] = x
Has(f, x) == x \in DOMAIN f
Put(f, x, y) == (x :> y) @@ f
Count(seq, P(_)) == Cardinality({i \in 1..Len(seq) : P(seq[i])})

VARIABLES
    up,            \* the connections whose Server engine has been constructed
    properties,    \* Object.properties, per heap object
    lists,         \* the list objects (one per Universe: its "objects" list)
    servers,       \* Object.servers, per heap object: membership indices
    memberships,   \* every _ServerObjectMembership created, in creation order
    objects,       \* Server.objects, per connection: id -> membership index
    ready,         \* the server process's event loop: tasks in FIFO order
    outLog,        \* per connection: every frame the server has sent
    rd,            \* per connection: how many of them the peer has read
    c2s,           \* per connection: frames the Client engine wrote, not yet read
    errs,          \* exceptions raised out of a task or a call
    fallback,      \* unknown_mtype invocations, per engine
    muts,          \* history: the property assignments made
    added,         \* history: ids passed to add_object, per connection
    handled,       \* history: frames the server's handlers have handled
    next_token,    \* Client.next_token
    outstanding_replies, \* Client.outstanding_replies: token -> PendingRequest
    calls,         \* the client application's get / set calls
    proxies,       \* Client.objects: id -> the properties with a callback
    eof,           \* the connections whose peer has closed the stream
    spins,         \* per connection: reads of StreamSession.run that met the end
    paused,        \* the connections whose transport has paused writing
    waiters,       \* per connection: frames whose send waits in drain
    budget         \* what the environment has done so far

vars == <<up, properties, lists, servers, memberships, objects, ready, outLog, rd,
          c2s, errs, fallback, muts, added, handled, next_token,
          outstanding_replies, calls, proxies, eof, spins, paused, waiters,
          budget>>

serverVars == <<up, properties, lists, servers, memberships, objects, ready,
                outLog, muts, added, handled>>
clientVars == <<next_token, outstanding_replies, calls, proxies>>
sessionVars == <<eof, spins, paused, waiters>>

\* ------------------------------------------------------------------- tasks
Task(kind, s, o, id, p, val, frame, mut) ==
    [kind |-> kind, s |-> s, o |-> o, id |-> id, p |-> p, val |-> val,
     frame |-> frame, mut |-> mut]
ReceiveTask(s, f) == Task("receive", s, "", 0, "", NoVal, f, 0)
UpdateServersTask(o, p, val, m) == Task("update_servers", 0, o, 0, p, val, NoFrame, m)
UpdateTask(s, id, p, val, m) == Task("update", s, "", id, p, val, NoFrame, m)
SendTask(s, f) == Task("send", s, "", 0, "", NoVal, f, 0)

\* json.dumps of a value: a list is written out element by element, as it is
\* at the moment of the send.
Dumps(val) == IF val.k = "ref" THEN ListVal(lists[val.v]) ELSE val


\* ------------------------------------------------------------------- Init
\* The application has created the object T (type "test", version 1, value 6,
\* as src/test.py does) and the empty object N.  Boot is the process before
\* any connection.  Init is the state once both connections have been
\* accepted, Server.__init__ has run for each, the application has added T to
\* each server (as TestServer.__init__ does) and the tasks all this created
\* have run (they come before any receive task in the FIFO queue): the
\* Universe is registered under id 0, its "objects" list holds 0 and T's id,
\* and identify is the first frame sent.
Membership(s, o, id) ==
    [server |-> s, object_val |-> o, object_id |-> id, subscriptions |-> <<>>]

Err(who, exc) == [who |-> who, exc |-> exc]

TProps ==
    ("type" :> StrVal("test")) @@ ("version" :> IntVal(1)) @@ ("value" :> IntVal(6))

Boot ==
    /\ up = {}
    /\ properties = [o \in Heap |-> IF o = "T" THEN TProps ELSE <<>>]
    /\ lists = [s \in Servers |-> <<>>]
    /\ servers = [o \in Heap |-> <<>>]
    /\ memberships = <<>>
    /\ objects = [s \in Servers |-> <<>>]
    /\ ready = <<>>
    /\ outLog = [s \in Servers |-> <<>>]
    /\ rd = [s \in Servers |-> 0]
    /\ c2s = [s \in Servers |-> <<>>]
    /\ errs = {}
    /\ fallback = [server |-> [s \in Servers |-> 0], client |-> 0]
    /\ muts = <<>>
    /\ added = [s \in Servers |-> <<>>]
    /\ handled = [s \in Servers |-> <<>>]
    /\ next_token = 1
    /\ outstanding_replies = <<>>
    /\ calls = <<>>
    /\ proxies = <<>>
    /\ eof = {}
    /\ spins = [s \in Servers |-> 0]
    /\ paused = {}
    /\ waiters = [s \in Servers |-> <<>>]
    /\ budget = 0

\* --------------------------------------------------------- server: objects
\* Mutant of SetItem: the assignment is lost.
SetItemLost(props, o, key, value) == props

\* Object.__setitem__: the assignment, and the update_servers task it creates.
SetItem(props, o, key, value) == [props EXCEPT ![o] = Put(@, key, value)]

\* The memberships Server.update will find subscribed to p for object o.
SubscribedTo(o, p) ==
    {mi \in 1..Len(memberships) :
        /\ memberships[mi].object_val = o
        /\ InSeq(p, memberships[mi].subscriptions)}

Mutation(o, p, val) == [o |-> o, p |-> p, val |-> val, subs |-> SubscribedTo(o, p)]

\* Mutant of update_servers: the loop stops after the first membership.
update_serversFirst(o, p, val, m) ==
    [i \in 1..(IF servers[o] = <<>> THEN 0 ELSE 1) |->
        UpdateTask(memberships[servers[o][i]].server,
                   memberships[servers[o][i]].object_id, p, val, m)]

\* Object.update_servers: one update task per membership, in list order.
update_servers(o, p, val, m) ==
    [i \in 1..Len(servers[o]) |->
        UpdateTask(memberships[servers[o][i]].server,
                   memberships[servers[o][i]].object_id, p, val, m)]

\* Server.add_object, from the properties props0 and the task queue ready0:
\* Object.add_server, the objects table entry, the append to the Universe's
\* "objects" list and the update_servers task for it.  The append raises
\* when the "objects" property no longer holds a list, and the caller's next
\* statements (which create the tasks `after`) are then not reached.
add_object(s, id, o, props0, ready0, after) ==
    LET idx == Len(memberships) + 1
        ms2 == Append(memberships, Membership(s, o, id))
        objs2 == Put(objects[s], id, idx)
        u == ms2[objs2[0]].object_val
    IN  /\ memberships' = ms2
        /\ servers' = [servers EXCEPT ![o] = Append(@, idx)]
        /\ objects' = [objects EXCEPT ![s] = objs2]
        /\ added' = [added EXCEPT ![s] = Append(@, id)]
        /\ properties' = props0
        /\ IF props0[u]["objects"].k = "ref"
             THEN /\ lists' = [lists EXCEPT ![props0[u]["objects"].v] = Append(@, id)]
                  /\ ready' = Append(ready0,
                         UpdateServersTask(u, "objects", props0[u]["objects"], 0))
                         \o after
                  /\ errs' = errs
             ELSE /\ lists' = lists
                  /\ ready' = ready0
                  /\ errs' = errs \cup {Err("add_object", "AttributeError")}

\* Server.__init__ on a new connection: the Universe object with its four
\* properties, add_object(0, universe), and the task that sends identify.
UniverseProps(s) ==
    ("type" :> StrVal("universe")) @@ ("version" :> IntVal(1))
    @@ ("objects" :> RefVal(s)) @@ ("time" :> IntVal(0))

IdentifyFrame == Frame("identify", NoToken, 0, "", NoVal, <<>>, "", 0)

Accept(s) ==
    /\ s \notin up
    /\ up' = up \cup {s}
    /\ LET u == Universe(s)
           r1 == ready \o
                 << UpdateServersTask(u, "type", StrVal("universe"), 0),
                    UpdateServersTask(u, "version", IntVal(1), 0),
                    UpdateServersTask(u, "objects", RefVal(s), 0),
                    UpdateServersTask(u, "time", IntVal(0), 0) >>
       IN  add_object(s, 0, u, [properties EXCEPT ![u] = UniverseProps(s)], r1,
                      <<SendTask(s, IdentifyFrame)>>)
    /\ UNCHANGED <<sessionVars, outLog, rd, c2s, fallback, muts, clientVars, budget, handled>>

InitialProperties ==
    [o \in Heap |->
        CASE o = "T" -> TProps
          [] o = "N" -> <<>>
          [] o = "U1" -> UniverseProps(1)
          [] o = "U2" -> UniverseProps(2)]

Init ==
    /\ up = Servers
    /\ properties = InitialProperties
    /\ lists = [s \in Servers |-> <<0, IdOf(s)>>]
    /\ memberships = << Membership(1, "U1", 0), Membership(2, "U2", 0),
                        Membership(1, "T", IdOf(1)), Membership(2, "T", IdOf(2)) >>
    /\ servers = [o \in Heap |->
           CASE o = "T" -> <<3, 4>>
             [] o = "N" -> <<>>
             [] o = "U1" -> <<1>>
             [] o = "U2" -> <<2>>]
    /\ objects = [s \in Servers |-> (0 :> s) @@ (IdOf(s) :> 2 + s)]
    /\ ready = <<>>
    /\ outLog = [s \in Servers |-> <<IdentifyFrame>>]
    /\ rd = [s \in Servers |-> 0]
    /\ c2s = [s \in Servers |-> <<>>]
    /\ errs = {}
    /\ fallback = [server |-> [s \in Servers |-> 0], client |-> 0]
    /\ muts = <<>>
    /\ added = [s \in Servers |-> <<0, IdOf(s)>>]
    /\ handled = [s \in Servers |-> <<>>]
    /\ next_token = 1
    /\ outstanding_replies = <<>>
    /\ calls = <<>>
    /\ proxies = <<>>
    /\ eof = {}
    /\ spins = [s \in Servers |-> 0]
    /\ paused = {}
    /\ waiters = [s \in Servers |-> <<>>]
    /\ budget = 0

Input ==
    /\ budget < MaxInputs
    /\ budget' = budget + 1

\* The embedding application adds the object o to server s under a fresh id.
AddObject(s, id, o) ==
    /\ s \in up
    /\ ~Has(objects[s], id)
    /\ \A i \in 1..Len(servers[o]) : memberships[servers[o][i]].server # s
    /\ Input
    /\ add_object(s, id, o, properties, ready, <<>>)
    /\ UNCHANGED <<sessionVars, up, outLog, rd, c2s, fallback, muts, clientVars, handled>>

\* The embedding application assigns obj[p] = v (as src/test.py does).
AppSet(o, p, v) ==
    /\ Input
    /\ properties' = SetItem(properties, o, p, IntVal(v))
    /\ muts' = Append(muts, Mutation(o, p, IntVal(v)))
    /\ ready' = Append(ready, UpdateServersTask(o, p, IntVal(v), Len(muts) + 1))
    /\ UNCHANGED <<sessionVars, up, lists, servers, memberships, objects, outLog, rd, c2s, errs,
                   fallback, added, clientVars, handled>>


\* ------------------------------------------------------- server: session
\* StreamSession.run: each complete frame read becomes a task running
\* Server.receive.
ServerRun(s) ==
    /\ s \in up
    /\ c2s[s] # <<>>
    /\ c2s' = [c2s EXCEPT ![s] = Tail(@)]
    /\ ready' = Append(ready, ReceiveTask(s, Head(c2s[s])))
    /\ UNCHANGED <<sessionVars, up, properties, lists, servers, memberships, objects, outLog, rd,
                   errs, fallback, muts, added, clientVars, budget, handled>>

\* StreamSession.send: the frames are written to the connection in call order.
Send(s, frames) == outLog' = [outLog EXCEPT ![s] = @ \o frames]

\* Server.reply: nothing when the token is None.
reply(token, status, value) ==
    IF token = NoToken
      THEN <<>>
      ELSE <<Frame("reply", token, 0, "", value, <<>>, status, 0)>>

\* History: the handler at the head of the queue has handled its frame; n
\* is the number of assignments made so far, this handler's included.
Handled ==
    handled' = [handled EXCEPT ![Head(ready).s] =
                   Append(@, [f |-> Head(ready).frame, n |-> Len(muts')])]

Receiving(mtypes) ==
    /\ ready # <<>>
    /\ Head(ready).kind = "receive"
    /\ Head(ready).frame.mtype \in mtypes

ServerMtypes == {"set", "get", "subscribe", "unsubscribe"}

\* Server.mtype_set
mtype_set ==
    /\ Receiving({"set"})
    /\ LET s == Head(ready).s
           f == Head(ready).frame
       IN  IF ~Has(objects[s], f.object)
             THEN /\ Send(s, reply(f.token, "no such object", NoVal))
                  /\ ready' = Tail(ready)
                  /\ UNCHANGED <<properties, muts>>
             ELSE LET o == memberships[objects[s][f.object]].object_val
                  IN  /\ properties' = SetItem(properties, o, f.property, f.value)
                      /\ muts' = Append(muts, Mutation(o, f.property, f.value))
                      /\ ready' = Append(Tail(ready),
                             UpdateServersTask(o, f.property, f.value, Len(muts) + 1))
                      /\ Send(s, reply(f.token, "success", NoVal))
    /\ UNCHANGED <<sessionVars, up, lists, servers, memberships, objects, rd, c2s, errs, fallback,
                   added, clientVars, budget>>
    /\ Handled

\* Server.mtype_get: Object.__getitem__ raises KeyError for an absent
\* property, which the handler's `except IndexError` does not catch.
mtype_get ==
    /\ Receiving({"get"})
    /\ LET s == Head(ready).s
           f == Head(ready).frame
       IN  IF ~Has(objects[s], f.object)
             THEN /\ Send(s, reply(f.token, "no such object", NoVal))
                  /\ errs' = errs
             ELSE LET o == memberships[objects[s][f.object]].object_val
                  IN  IF Has(properties[o], f.property)
                        THEN /\ Send(s, reply(f.token, "success",
                                              Dumps(properties[o][f.property])))
                             /\ errs' = errs
                        ELSE /\ Send(s, <<>>)
                             /\ errs' = errs \cup {Err("server", "KeyError")}
    /\ ready' = Tail(ready)
    /\ UNCHANGED <<sessionVars, up, properties, lists, servers, memberships, objects, rd, c2s,
                   fallback, muts, added, clientVars, budget>>
    /\ Handled

\* Mutant of SubscribeAll: every name is appended, already there or not.
SubscribeAllAppend(subs, props) == subs \o props

\* The loop of mtype_subscribe: append each name not yet in the list.
RECURSIVE SubscribeAll(_, _)
SubscribeAll(subs, props) ==
    IF props = <<>>
      THEN subs
      ELSE SubscribeAll(IF ~InSeq(Head(props), subs) THEN Append(subs, Head(props))
                                                       ELSE subs,
                        Tail(props))

\* Mutant of mtype_subscribe: only properties the object holds are added.
mtype_subscribeStrict ==
    /\ Receiving({"subscribe"})
    /\ LET s == Head(ready).s
           f == Head(ready).frame
       IN  IF ~Has(objects[s], f.object)
             THEN /\ Send(s, reply(f.token, "no such object", NoVal))
                  /\ memberships' = memberships
             ELSE /\ memberships' =
                        [memberships EXCEPT ![objects[s][f.object]].subscriptions =
                            SubscribeAll(@, SelectSeq(f.properties,
                                LAMBDA p : Has(properties[memberships[
                                    objects[s][f.object]].object_val], p)))]
                  /\ Send(s, reply(f.token, "success", NoVal))
    /\ ready' = Tail(ready)
    /\ UNCHANGED <<sessionVars, up, properties, lists, servers, objects, rd, c2s, errs, fallback,
                   muts, added, clientVars, budget>>
    /\ Handled

\* Server.mtype_subscribe
mtype_subscribe ==
    /\ Receiving({"subscribe"})
    /\ LET s == Head(ready).s
           f == Head(ready).frame
       IN  IF ~Has(objects[s], f.object)
             THEN /\ Send(s, reply(f.token, "no such object", NoVal))
                  /\ memberships' = memberships
             ELSE /\ memberships' =
                        [memberships EXCEPT ![objects[s][f.object]].subscriptions =
                            SubscribeAll(@, f.properties)]
                  /\ Send(s, reply(f.token, "success", NoVal))
    /\ ready' = Tail(ready)
    /\ UNCHANGED <<sessionVars, up, properties, lists, servers, objects, rd, c2s, errs, fallback,
                   muts, added, clientVars, budget>>
    /\ Handled

\* list.remove(x): the first occurrence goes; ValueError when there is none.
RECURSIVE Remove(_, _)
Remove(seq, x) ==
    IF seq = <<>> THEN <<>>
    ELSE IF Head(seq) = x THEN Tail(seq)
    ELSE <<Head(seq)>> \o Remove(Tail(seq), x)

\* The loop of mtype_unsubscribe: for each name NOT in the list, try to
\* remove it (ValueError is swallowed).
RECURSIVE UnsubscribeAll(_, _)
UnsubscribeAll(subs, props) ==
    IF props = <<>>
      THEN subs
      ELSE UnsubscribeAll(IF ~InSeq(Head(props), subs)
                            THEN (IF InSeq(Head(props), subs)
                                    THEN Remove(subs, Head(props))
                                    ELSE subs)
                            ELSE subs,
                          Tail(props))

\* Server.mtype_unsubscribe
mtype_unsubscribe ==
    /\ Receiving({"unsubscribe"})
    /\ LET s == Head(ready).s
           f == Head(ready).frame
       IN  IF ~Has(objects[s], f.object)
             THEN /\ Send(s, reply(f.token, "no such object", NoVal))
                  /\ memberships' = memberships
             ELSE /\ memberships' =
                        [memberships EXCEPT ![objects[s][f.object]].subscriptions =
                            UnsubscribeAll(@, f.properties)]
                  /\ Send(s, reply(f.token, "success", NoVal))
    /\ ready' = Tail(ready)
    /\ UNCHANGED <<sessionVars, up, properties, lists, servers, objects, rd, c2s, errs, fallback,
                   muts, added, clientVars, budget>>
    /\ Handled

\* Server.receive for an mtype without a handler: the unknown_mtype fallback
\* (defined by the subclass, as TestServer does), then return.
ServerUnknown ==
    /\ ready # <<>>
    /\ Head(ready).kind = "receive"
    /\ Head(ready).frame.mtype \notin ServerMtypes
    /\ fallback' = [fallback EXCEPT !.server[Head(ready).s] = @ + 1]
    /\ ready' = Tail(ready)
    /\ UNCHANGED <<sessionVars, up, properties, lists, servers, memberships, objects, outLog, rd,
                   c2s, errs, muts, added, clientVars, budget>>
    /\ Handled

\* The task Object.__setitem__ and add_object create: Object.update_servers.
RunUpdateServers ==
    /\ ready # <<>>
    /\ Head(ready).kind = "update_servers"
    /\ LET t == Head(ready)
       IN  ready' = Tail(ready) \o update_servers(t.o, t.p, t.val, t.mut)
    /\ UNCHANGED <<sessionVars, up, properties, lists, servers, memberships, objects, outLog, rd,
                   c2s, errs, fallback, muts, added, clientVars, budget, handled>>

\* Mutant of update: any membership of the object that subscribes will do.
updateAnyMembership(s, object_id, property, value, m) ==
    IF SubscribedTo(memberships[objects[s][object_id]].object_val, property) # {}
      THEN <<Frame("update", NoToken, object_id, property, Dumps(value), <<>>, "", m)>>
      ELSE <<>>

\* Server.update: the update frame, when the property is in the subscription
\* list of this server's membership for object_id.
update(s, object_id, property, value, m) ==
    IF InSeq(property, memberships[objects[s][object_id]].subscriptions)
      THEN <<Frame("update", NoToken, object_id, property, Dumps(value), <<>>, "", m)>>
      ELSE <<>>

RunUpdate ==
    /\ ready # <<>>
    /\ Head(ready).kind = "update"
    /\ LET t == Head(ready)
       IN  Send(t.s, update(t.s, t.id, t.p, t.val, t.mut))
    /\ ready' = Tail(ready)
    /\ UNCHANGED <<sessionVars, up, properties, lists, servers, memberships, objects, rd, c2s,
                   errs, fallback, muts, added, clientVars, budget, handled>>

\* The task Server.__init__ creates to send identify.
RunSend ==
    /\ ready # <<>>
    /\ Head(ready).kind = "send"
    /\ Send(Head(ready).s, <<Head(ready).frame>>)
    /\ ready' = Tail(ready)
    /\ UNCHANGED <<sessionVars, up, properties, lists, servers, memberships, objects, rd, c2s,
                   errs, fallback, muts, added, clientVars, budget, handled>>


\* ------------------------------------------------------------ client engine
PendingRequest == [event |-> FALSE, message |-> NoFrame]

\* Mutant of generate_token: next_token is not advanced.
generate_tokenStuck(next) == [token |-> next, next_token |-> next]

\* Client.generate_token: the token handed out, and next_token afterwards.
generate_token(next) == [token |-> next, next_token |-> next + 1]

Call(kind, object, property, value, token) ==
    [kind |-> kind, object |-> object, property |-> property, value |-> value,
     token |-> token, pc |-> "waiting", reply |-> NoFrame, result |-> NoVal,
     after |-> {i \in 1..Len(calls) : calls[i].pc # "waiting"}]

\* Client.request up to its wait: the token, the PendingRequest, the send.
request(kind, object, property, value) ==
    LET g == generate_token(next_token)
        f == Frame(kind, g.token, object, property, value, <<>>, "", 0)
    IN  /\ next_token' = g.next_token
        /\ outstanding_replies' = Put(outstanding_replies, g.token, PendingRequest)
        /\ c2s' = [c2s EXCEPT ![ClientConn] = Append(@, f)]
        /\ calls' = Append(calls, Call(kind, object, property, value, g.token))

\* Client.get(object_id, property), up to the wait inside request.
ClientGet(object, property) ==
    /\ Input
    /\ request("get", object, property, NoVal)
    /\ UNCHANGED <<sessionVars, serverVars, rd, errs, fallback, proxies>>

\* Client.set(object_id, property, value), up to the wait inside request.
ClientSet(object, property, v) ==
    /\ Input
    /\ request("set", object, property, IntVal(v))
    /\ UNCHANGED <<sessionVars, serverVars, rd, errs, fallback, proxies>>

\* Client.subscribe(object_id, properties): a subscribe frame with token None.
ClientSubscribe(object, props) ==
    /\ Input
    /\ c2s' = [c2s EXCEPT ![ClientConn] =
                  Append(@, Frame("subscribe", NoToken, object, "", NoVal, props, "", 0))]
    /\ UNCHANGED <<sessionVars, serverVars, rd, errs, fallback, clientVars>>

\* Object.subscribe(callbacks) on the proxy self[object]: each callback is
\* stored under its property name, and Client.subscribe is called with the
\* list `properties`, which the loop never fills.
ObjectSubscribe(object, props) ==
    /\ Input
    /\ proxies' = Put(proxies, object,
                      (IF Has(proxies, object) THEN proxies[object] ELSE {}) \cup props)
    /\ c2s' = [c2s EXCEPT ![ClientConn] =
                  Append(@, Frame("subscribe", NoToken, object, "", NoVal, <<>>, "", 0))]
    /\ UNCHANGED <<sessionVars, serverVars, rd, errs, fallback, next_token, outstanding_replies,
                   calls>>

\* The frame the client's session reads next.
Inbound == outLog[ClientConn][rd[ClientConn] + 1]

\* Mutant of ClientReceiving: run awaits the handler of a frame instead of
\* creating a task for it, so nothing is read while a handler is suspended.
ClientReceivingAwaited ==
    /\ \A i \in 1..Len(calls) : calls[i].pc # "waiting"
    /\ rd[ClientConn] < Len(outLog[ClientConn])
    /\ rd' = [rd EXCEPT ![ClientConn] = @ + 1]

\* StreamSession.run of the client: the next frame is read and a task is
\* created for Client.receive; run does not wait for that task.
ClientReceiving ==
    /\ rd[ClientConn] < Len(outLog[ClientConn])
    /\ rd' = [rd EXCEPT ![ClientConn] = @ + 1]

\* Mutant of Resolve: the reply resolves every pending request.
ResolveAll(table, f) ==
    [tk \in DOMAIN table |-> [event |-> TRUE, message |-> f]]

\* The table after Client.mtype_reply has stored the reply and set the event.
Resolve(table, f) ==
    [table EXCEPT ![f.token] = [event |-> TRUE, message |-> f]]

\* Client.receive of a reply frame: Client.mtype_reply.  A token without an
\* entry in outstanding_replies raises KeyError.
mtype_reply ==
    /\ ClientReceiving
    /\ Inbound.mtype = "reply"
    /\ IF Has(outstanding_replies, Inbound.token)
         THEN /\ outstanding_replies' = Resolve(outstanding_replies, Inbound)
              /\ errs' = errs
         ELSE /\ outstanding_replies' = outstanding_replies
              /\ errs' = errs \cup {Err("client", "KeyError")}
    /\ UNCHANGED <<sessionVars, serverVars, c2s, fallback, next_token, calls, proxies, budget>>

\* Client.receive of an update frame: func(**message) passes mtype as a
\* keyword that mtype_update(object, property, value) does not take.
mtype_update ==
    /\ ClientReceiving
    /\ Inbound.mtype = "update"
    /\ errs' = errs \cup {Err("client", "TypeError")}
    /\ UNCHANGED <<sessionVars, serverVars, c2s, fallback, clientVars, budget>>

\* Client.receive for an mtype without a handler: the unknown_mtype fallback
\* (defined by the subclass, as TestClient does); there is no return after
\* it, so `await func(**message)` follows with func unbound.
ClientUnknown ==
    /\ ClientReceiving
    /\ Inbound.mtype \notin {"reply", "update"}
    /\ fallback' = [fallback EXCEPT !.client = @ + 1]
    /\ errs' = errs \cup {Err("client", "UnboundLocalError")}
    /\ UNCHANGED <<sessionVars, serverVars, c2s, clientVars, budget>>

\* Client.request after its wait: the entry is deleted and the message
\* returned; Client.get then takes ["value"] of it (KeyError when the reply
\* carries none), Client.set returns nothing.
RequestResume(i) ==
    /\ calls[i].pc = "waiting"
    /\ outstanding_replies[calls[i].token].event
    /\ LET msg == outstanding_replies[calls[i].token].message
       IN  /\ outstanding_replies' =
                  [t \in DOMAIN outstanding_replies \ {calls[i].token} |->
                      outstanding_replies[t]]
           /\ IF calls[i].kind = "get" /\ msg.value = NoVal
                THEN /\ calls' = [calls EXCEPT ![i].pc = "raised", ![i].reply = msg]
                     /\ errs' = errs \cup {Err("client.get", "KeyError")}
                ELSE /\ calls' = [calls EXCEPT ![i].pc = "returned", ![i].reply = msg,
                                               ![i].result = msg.value]
                     /\ errs' = errs
    /\ UNCHANGED <<sessionVars, serverVars, rd, c2s, fallback, next_token, proxies, budget>>

\* ------------------------------------------------------------ direct peer
PeerToken == 9
PeerId == IdOf(PeerConn)

\* The frames the direct peer may write.  Id NewId is unregistered until the
\* application adds N, and N holds no property "value".  The subscribe frame
\* names "value" twice; written twice, it subscribes in several frames too.
PeerFrames ==
    { Frame("subscribe", NoToken, PeerId, "", NoVal, <<"value", "value">>, "", 0),
      Frame("unsubscribe", PeerToken, PeerId, "", NoVal, <<"value">>, "", 0),
      Frame("set", PeerToken, 0, "objects", IntVal(7), <<>>, "", 0),
      Frame("set", PeerToken, NewId, "value", IntVal(8), <<>>, "", 0),
      Frame("get", PeerToken, NewId, "value", NoVal, <<>>, "", 0),
      Frame("ping", NoToken, 0, "", NoVal, <<>>, "", 0) }

\* StreamSession.run of connection 2 reads one well-formed frame its peer
\* wrote and creates the task for it.  The peer keeps no state, so its write
\* is no step of its own: the frame is chosen when the session reads it.
PeerSend(f) ==
    /\ PeerConn \in up
    /\ Input
    /\ ready' = Append(ready, ReceiveTask(PeerConn, f))
    /\ UNCHANGED <<sessionVars, up, properties, lists, servers, memberships, objects, outLog, rd,
                   c2s, errs, fallback, muts, added, clientVars, handled>>

\* ------------------------------------------------------------------- Next
ClientId == IdOf(ClientConn)

Next ==
    \/ AddObject(PeerConn, NewId, "N")
    \/ AppSet("T", "value", 8)
    \/ \E s \in Servers : ServerRun(s)
    \/ mtype_set
    \/ mtype_get
    \/ mtype_subscribe
    \/ mtype_unsubscribe
    \/ ServerUnknown
    \/ RunUpdateServers
    \/ RunUpdate
    \/ ClientGet(ClientId, "value")
    \/ ClientSet(ClientId, "value", 7)
    \/ ClientSubscribe(ClientId, <<"value">>)
    \/ mtype_reply
    \/ mtype_update
    \/ ClientUnknown
    \/ \E i \in 1..Len(calls) : RequestResume(i)
    \/ \E f \in PeerFrames : PeerSend(f)

\* From the start of the process: connections are accepted one by one.
NextBoot ==
    \/ \E s \in Servers : Accept(s)
    \/ \E s \in Servers : AddObject(s, IdOf(s), "T")
    \/ RunSend
    \/ Next

SpecBoot == Boot /\ [][NextBoot]_vars

Spec == Init /\ [][Next]_vars


\* ------------------------------------------- client engine, any server peer
\* The Client engine connected to a server that is not this Server engine:
\* whatever well-formed frames that server writes reach Client.receive.
\* Tokens 1 and 2 are the first two the client allocates; a reply may come
\* before its request, twice, or with a status other than "success".
ServerPeerFrames ==
    { Frame("reply", 1, 0, "", IntVal(6), <<>>, "success", 0),
      Frame("reply", 1, 0, "", NoVal, <<>>, "no such object", 0),
      Frame("reply", 2, 0, "", NoVal, <<>>, "success", 0),
      Frame("update", NoToken, ClientId, "value", IntVal(8), <<>>, "", 0) }

\* StreamSession.run of the client reads what the server peer wrote.
ServerPeerSend(f) ==
    /\ Input
    /\ outLog' = [outLog EXCEPT ![ClientConn] = Append(@, f)]
    /\ UNCHANGED <<sessionVars, up, properties, lists, servers, memberships, objects, ready, rd,
                   c2s, errs, fallback, muts, added, handled, clientVars>>

InitClient == Boot

NextClient ==
    \/ ClientGet(ClientId, "value")
    \/ ClientSet(ClientId, "value", 7)
    \/ ObjectSubscribe(ClientId, {"value"})
    \/ mtype_reply
    \/ mtype_update
    \/ \E i \in 1..Len(calls) : RequestResume(i)
    \/ \E f \in ServerPeerFrames : ServerPeerSend(f)

SpecClient == InitClient /\ [][NextClient]_vars


\* --------------------------------------------- subscriptions, end to end
\* The Client engine subscribes through its object proxy and sets the
\* property; the server handles what it wrote.  The direct peer subscribes to
\* a property T does not hold, "colour", and sets it.
SubscribeFrames ==
    { Frame("subscribe", PeerToken, PeerId, "", NoVal, <<"colour">>, "", 0),
      Frame("set", PeerToken, PeerId, "colour", IntVal(8), <<>>, "", 0) }

NextSubscribe ==
    \/ ObjectSubscribe(ClientId, {"value"})
    \/ ClientSet(ClientId, "value", 7)
    \/ \E f \in SubscribeFrames : PeerSend(f)
    \/ \E s \in Servers : ServerRun(s)
    \/ mtype_set
    \/ mtype_subscribe
    \/ RunUpdateServers
    \/ RunUpdate
    \/ mtype_reply
    \/ ClientUnknown
    \/ \E i \in 1..Len(calls) : RequestResume(i)

SpecSubscribe == Init /\ [][NextSubscribe]_vars


\* ------------------------------------------------------ connection set-up
\* From the start of the process, with the frames and calls that make a
\* server send replies and updates on a connection as early as it can.
ConnectFrames ==
    { Frame("subscribe", NoToken, PeerId, "", NoVal, <<"value">>, "", 0),
      Frame("get", PeerToken, 0, "objects", NoVal, <<>>, "", 0) }

\* Mutant of InitTasks: no task to send identify.
InitTasksSilent(s) ==
    << UpdateServersTask(Universe(s), "type", StrVal("universe"), 0),
       UpdateServersTask(Universe(s), "version", IntVal(1), 0),
       UpdateServersTask(Universe(s), "objects", RefVal(s), 0),
       UpdateServersTask(Universe(s), "time", IntVal(0), 0),
       UpdateServersTask(Universe(s), "objects", RefVal(s), 0) >>

\* The tasks Server.__init__ creates on connection s, in order: one
\* update_servers per property assigned to the Universe, the one of
\* add_object(0, universe), and the send of identify.
InitTasks(s) ==
    << UpdateServersTask(Universe(s), "type", StrVal("universe"), 0),
       UpdateServersTask(Universe(s), "version", IntVal(1), 0),
       UpdateServersTask(Universe(s), "objects", RefVal(s), 0),
       UpdateServersTask(Universe(s), "time", IntVal(0), 0),
       UpdateServersTask(Universe(s), "objects", RefVal(s), 0),
       SendTask(s, IdentifyFrame) >>

\* TestServer.__init__ on a new connection: Server.__init__, then
\* add_object(IdOf(s), T), in one synchronous block.
AcceptTest(s) ==
    /\ s \notin up
    /\ up' = up \cup {s}
    /\ LET idx == Len(memberships) + 1
       IN  /\ memberships' = memberships \o << Membership(s, Universe(s), 0),
                                               Membership(s, "T", IdOf(s)) >>
           /\ servers' = [servers EXCEPT ![Universe(s)] = Append(@, idx),
                                         !["T"] = Append(@, idx + 1)]
           /\ objects' = [objects EXCEPT ![s] = (0 :> idx) @@ (IdOf(s) :> idx + 1)]
    /\ added' = [added EXCEPT ![s] = <<0, IdOf(s)>>]
    /\ properties' = [properties EXCEPT ![Universe(s)] = UniverseProps(s)]
    /\ lists' = [lists EXCEPT ![s] = <<0, IdOf(s)>>]
    /\ ready' = ready \o InitTasks(s)
                      \o <<UpdateServersTask(Universe(s), "objects", RefVal(s), 0)>>
    /\ UNCHANGED <<sessionVars, outLog, rd, c2s, errs, fallback, muts, clientVars, budget, handled>>

\* Connection 1 has been accepted (TestServer.__init__) and its tasks have
\* run; connection 2 has not been accepted yet.
InitConnect ==
    /\ up = {ClientConn}
    /\ properties = [InitialProperties EXCEPT ![Universe(PeerConn)] = <<>>]
    /\ lists = [s \in Servers |-> IF s = ClientConn THEN <<0, IdOf(s)>> ELSE <<>>]
    /\ memberships = << Membership(ClientConn, Universe(ClientConn), 0),
                        Membership(ClientConn, "T", IdOf(ClientConn)) >>
    /\ servers = [o \in Heap |->
           CASE o = "T" -> <<2>>
             [] o = Universe(ClientConn) -> <<1>>
             [] OTHER -> <<>>]
    /\ objects = [s \in Servers |->
           IF s = ClientConn THEN (0 :> 1) @@ (IdOf(s) :> 2) ELSE <<>>]
    /\ ready = <<>>
    /\ outLog = [s \in Servers |-> IF s = ClientConn THEN <<IdentifyFrame>> ELSE <<>>]
    /\ rd = [s \in Servers |-> 0]
    /\ c2s = [s \in Servers |-> <<>>]
    /\ errs = {}
    /\ fallback = [server |-> [s \in Servers |-> 0], client |-> 0]
    /\ muts = <<>>
    /\ added = [s \in Servers |-> IF s = ClientConn THEN <<0, IdOf(s)>> ELSE <<>>]
    /\ handled = [s \in Servers |-> <<>>]
    /\ next_token = 1
    /\ outstanding_replies = <<>>
    /\ calls = <<>>
    /\ proxies = <<>>
    /\ eof = {}
    /\ spins = [s \in Servers |-> 0]
    /\ paused = {}
    /\ waiters = [s \in Servers |-> <<>>]
    /\ budget = 0

\* The server process while connection 2 is set up: the client of
\* connection 1 subscribes and sets, the peer of connection 2 writes as soon
\* as it is accepted.  (What the client reads is left out: it does not act on
\* the server.)
NextConnect ==
    \/ AcceptTest(PeerConn)
    \/ AppSet("T", "value", 8)
    \/ RunSend
    \/ RunUpdateServers
    \/ RunUpdate
    \/ \E s \in Servers : ServerRun(s)
    \/ mtype_set
    \/ mtype_get
    \/ mtype_subscribe
    \/ ClientSet(ClientId, "value", 7)
    \/ ClientSubscribe(ClientId, <<"value">>)
    \/ \E f \in ConnectFrames : PeerSend(f)

SpecConnect == InitConnect /\ [][NextConnect]_vars


\* ------------------------------------------------------- end of the stream
\* How often the model follows StreamSession.run around its loop once the
\* stream has ended.
MaxSpins == 2

StreamFrames == { Frame("get", PeerToken, PeerId, "value", NoVal, <<>>, "", 0) }

\* The peer of connection 2 closes the stream.
PeerClose ==
    /\ PeerConn \in up
    /\ PeerConn \notin eof
    /\ Input
    /\ eof' = eof \cup {PeerConn}
    /\ UNCHANGED <<spins, paused, waiters, serverVars, rd, c2s, errs, fallback, clientVars>>

\* StreamSession.run at the end of the stream: readuntil raises
\* IncompleteReadError, the except clause keeps the partial data, and the
\* `while True` loop reads again.  No statement of the loop leaves it.
RunEof(s) ==
    /\ s \in up
    /\ s \in eof
    /\ c2s[s] = <<>>
    /\ spins[s] < MaxSpins
    /\ spins' = [spins EXCEPT ![s] = @ + 1]
    /\ UNCHANGED <<eof, paused, waiters, serverVars, rd, c2s, errs, fallback, clientVars,
                   budget>>

\* At the end of the stream readuntil raises without suspending, so once run
\* has met it the loop never gives the event loop back: no other task of the
\* process runs again.
Starved == \E s \in Servers : spins[s] > 0

NextStream ==
    \/ PeerClose
    \/ RunEof(PeerConn)
    \/ (PeerConn \notin eof /\ \E f \in StreamFrames : PeerSend(f))
    \/ (~Starved /\ \E s \in Servers : ServerRun(s))
    \/ (~Starved /\ mtype_get)
    \/ ClientGet(ClientId, "value")
    \/ mtype_reply
    \/ ClientUnknown
    \/ \E i \in 1..Len(calls) : RequestResume(i)

SpecStream == Init /\ [][NextStream]_vars


\* -------------------------------------------- TestClient.mtype_identify
\* TestClient.mtype_identify up to its first wait: it runs in the task
\* StreamSession.run created for the identify frame, prints, and awaits
\* self[0]["objects"], a Client.get.  self[0] makes the proxy of id 0.
mtype_identify ==
    /\ ClientReceiving
    /\ Inbound.mtype = "identify"
    /\ request("get", 0, "objects", NoVal)
    /\ proxies' = Put(proxies, 0, IF Has(proxies, 0) THEN proxies[0] ELSE {})
    /\ UNCHANGED <<sessionVars, serverVars, errs, fallback, budget>>

\* The handler after the request calls[i] resolved.  Client.request deletes
\* the entry and returns the message, Client.get takes its ["value"].  After
\* the first get the handler awaits self[1]["value"]; after the second it
\* calls self[1].subscribe(val_changed), where Object.subscribe iterates
\* callbacks.items() of a function and raises AttributeError.
HandlerResume(i) ==
    /\ calls[i].pc = "waiting"
    /\ outstanding_replies[calls[i].token].event
    /\ LET msg == outstanding_replies[calls[i].token].message
           rest == [t \in DOMAIN outstanding_replies \ {calls[i].token} |->
                       outstanding_replies[t]]
           done == [calls EXCEPT ![i].pc = "returned", ![i].reply = msg,
                                 ![i].result = msg.value]
           g == generate_token(next_token)
       IN  IF msg.value = NoVal
             THEN /\ calls' = [calls EXCEPT ![i].pc = "raised", ![i].reply = msg]
                  /\ errs' = errs \cup {Err("client.get", "KeyError")}
                  /\ outstanding_replies' = rest
                  /\ UNCHANGED <<next_token, c2s, proxies>>
             ELSE IF i = 1
               THEN /\ next_token' = g.next_token
                    /\ outstanding_replies' = Put(rest, g.token, PendingRequest)
                    /\ c2s' = [c2s EXCEPT ![ClientConn] =
                          Append(@, Frame("get", g.token, ClientId, "value", NoVal,
                                          <<>>, "", 0))]
                    /\ calls' = Append(done, [Call("get", ClientId, "value", NoVal, g.token)
                                                EXCEPT !.after = {1}])
                    /\ proxies' = Put(proxies, ClientId, IF Has(proxies, ClientId)
                                                           THEN proxies[ClientId] ELSE {})
                    /\ errs' = errs
               ELSE /\ calls' = done
                    /\ outstanding_replies' = rest
                    /\ errs' = errs \cup {Err("mtype_identify", "AttributeError")}
                    /\ UNCHANGED <<next_token, c2s, proxies>>
    /\ UNCHANGED <<sessionVars, serverVars, rd, fallback, budget>>

\* What the two processes do on their own once the input is there.
IdentifySteps ==
    \/ mtype_identify
    \/ ServerRun(ClientConn)
    \/ mtype_get
    \/ mtype_subscribe
    \/ RunUpdateServers
    \/ RunUpdate
    \/ mtype_reply
    \/ mtype_update
    \/ \E i \in 1..Len(calls) : HandlerResume(i)

NextIdentify ==
    \/ IdentifySteps
    \/ AppSet("T", "value", 8)
    \/ ClientSubscribe(ClientId, <<"value">>)
    \/ \E f \in StreamFrames : PeerSend(f)

\* Both event loops run a ready task and both sessions read a frame that has
\* arrived: the steps of the processes are weakly fair.
SpecIdentify == Init /\ [][NextIdentify]_vars /\ WF_vars(IdentifySteps)


\* ------------------------------------------------------ add_object again
\* The embedding application calls server.add_object(id, o) with any id and
\* any object: add_object tests neither the id nor the object.
ReAddObject(s, id, o) ==
    /\ s \in up
    /\ Input
    /\ add_object(s, id, o, properties, ready, <<>>)
    /\ UNCHANGED <<sessionVars, up, outLog, rd, c2s, fallback, muts, clientVars, handled>>

NextAdd ==
    \/ \E s \in Servers : \E id \in {IdOf(s), NewId}, o \in {"T", "N"} :
          ReAddObject(s, id, o)
    \/ AppSet("T", "value", 8)
    \/ ClientSubscribe(ClientId, <<"value">>)
    \/ ServerRun(ClientConn)
    \/ mtype_subscribe
    \/ RunUpdateServers
    \/ RunUpdate

SpecAdd == Init /\ [][NextAdd]_vars


\* ---------------------------------------------- send under flow control
\* StreamSession.send awaits writer.drain() and then writes.  drain returns
\* at once unless the transport has paused writing (its buffer is over the
\* high-water mark because the peer reads slowly); then the task waits, and
\* when the transport resumes the waiting tasks are woken in order, each
\* behind whatever the event loop already holds ready.  The event loop runs
\* in iterations: PollTask marks the end of the current one, and the
\* transport's write-ready handle is queued at that boundary.
PollTask == Task("poll", 0, "", 0, "", NoVal, NoFrame, 0)
WriteReadyTask(s) == Task("write_ready", s, "", 0, "", NoVal, NoFrame, 0)
WriteTask(s, f) == Task("write", s, "", 0, "", NoVal, f, 0)

SubscribeValue == Frame("subscribe", NoToken, PeerId, "", NoVal, <<"value">>, "", 0)

\* Init once the peer of connection 2 has subscribed to "value" of T (its
\* subscribe frame is handled), at the start of an iteration of the server's
\* event loop.  The inputs are counted from here.
InitOrder ==
    /\ up = Servers
    /\ properties = InitialProperties
    /\ lists = [s \in Servers |-> <<0, IdOf(s)>>]
    /\ memberships = << Membership(1, "U1", 0), Membership(2, "U2", 0),
                        Membership(1, "T", IdOf(1)),
                        [Membership(2, "T", IdOf(2)) EXCEPT !.subscriptions = <<"value">>] >>
    /\ servers = [o \in Heap |->
           CASE o = "T" -> <<3, 4>>
             [] o = "N" -> <<>>
             [] o = "U1" -> <<1>>
             [] o = "U2" -> <<2>>]
    /\ objects = [s \in Servers |-> (0 :> s) @@ (IdOf(s) :> 2 + s)]
    /\ ready = <<PollTask>>
    /\ outLog = [s \in Servers |-> <<IdentifyFrame>>]
    /\ rd = [s \in Servers |-> 0]
    /\ c2s = [s \in Servers |-> <<>>]
    /\ errs = {}
    /\ fallback = [server |-> [s \in Servers |-> 0], client |-> 0]
    /\ muts = <<>>
    /\ added = [s \in Servers |-> <<0, IdOf(s)>>]
    /\ handled = [s \in Servers |->
           IF s = PeerConn THEN <<[f |-> SubscribeValue, n |-> 0]>> ELSE <<>>]
    /\ next_token = 1
    /\ outstanding_replies = <<>>
    /\ calls = <<>>
    /\ proxies = <<>>
    /\ eof = {}
    /\ spins = [s \in Servers |-> 0]
    /\ paused = {}
    /\ waiters = [s \in Servers |-> <<>>]
    /\ budget = 0

\* The end of one iteration of the event loop: what the tasks of this
\* iteration made ready runs in the next, behind the write-ready handle of a
\* paused transport whose peer has read enough in the meantime.
RunOnce ==
    /\ ready # <<>>
    /\ Head(ready) = PollTask
    /\ \E h \in {<<>>} \cup {<<WriteReadyTask(s)>> : s \in paused} :
          ready' = Tail(ready) \o h \o <<PollTask>>
    /\ UNCHANGED <<sessionVars, up, properties, lists, servers, memberships, objects,
                   outLog, rd, c2s, errs, fallback, muts, added, clientVars, budget,
                   handled>>

\* writer.write: the frame is on the connection; the transport pauses
\* writing when this takes its buffer over the high-water mark.  Only the
\* peer of connection 2 reads slowly enough for that.
Write(s, frames) ==
    /\ outLog' = [outLog EXCEPT ![s] = @ \o frames]
    /\ \E p \in (IF s = PeerConn /\ frames # <<>> THEN BOOLEAN ELSE {FALSE}) :
          paused' = IF p THEN paused \cup {s} ELSE paused

\* Server.update as a task, with StreamSession.send in full: the subscription
\* test, drain, write.
RunUpdateDrain ==
    /\ ready # <<>>
    /\ Head(ready).kind = "update"
    /\ LET t == Head(ready)
           f == update(t.s, t.id, t.p, t.val, t.mut)
       IN  IF f # <<>> /\ t.s \in paused
             THEN /\ waiters' = [waiters EXCEPT ![t.s] = @ \o f]
                  /\ UNCHANGED <<outLog, paused>>
             ELSE /\ Write(t.s, f)
                  /\ UNCHANGED waiters
    /\ ready' = Tail(ready)
    /\ UNCHANGED <<eof, spins, up, properties, lists, servers, memberships, objects, rd,
                   c2s, errs, fallback, muts, added, clientVars, budget, handled>>

\* The transport resumes writing: the tasks waiting in drain are made ready,
\* in the order they waited.
RunWriteReady ==
    /\ ready # <<>>
    /\ Head(ready).kind = "write_ready"
    /\ LET s == Head(ready).s
       IN  /\ paused' = paused \ {s}
           /\ ready' = Tail(ready) \o [i \in 1..Len(waiters[s]) |-> WriteTask(s, waiters[s][i])]
           /\ waiters' = [waiters EXCEPT ![s] = <<>>]
    /\ UNCHANGED <<eof, spins, up, properties, lists, servers, memberships, objects,
                   outLog, rd, c2s, errs, fallback, muts, added, clientVars, budget,
                   handled>>

\* A task woken from drain goes on to writer.write.
RunWrite ==
    /\ ready # <<>>
    /\ Head(ready).kind = "write"
    /\ Write(Head(ready).s, <<Head(ready).frame>>)
    /\ ready' = Tail(ready)
    /\ UNCHANGED <<eof, spins, waiters, up, properties, lists, servers, memberships,
                   objects, rd, c2s, errs, fallback, muts, added, clientVars, budget,
                   handled>>

NextOrder ==
    \/ \E v \in {7, 8} : AppSet("T", "value", v)
    \/ RunOnce
    \/ RunUpdateServers
    \/ RunUpdateDrain
    \/ RunWriteReady
    \/ RunWrite

SpecOrder == InitOrder /\ [][NextOrder]_vars


\* ================================================================= claims
Received == SubSeq(outLog[ClientConn], 1, rd[ClientConn])
Waiting(i) == calls[i].pc = "waiting"

\* C1: a request returns only after a reply frame carrying its own token has
\* been received, and what it returns (or is about to return) is that reply;
\* a reply with another token neither resolves it nor changes its result.
C1_RequestReturnsOwnReply ==
    \A i \in 1..Len(calls) :
        /\ ~Waiting(i) =>
              /\ calls[i].reply.mtype = "reply"
              /\ calls[i].reply.token = calls[i].token
              /\ InSeq(calls[i].reply, Received)
        /\ Waiting(i) =>
              /\ Has(outstanding_replies, calls[i].token)
              /\ outstanding_replies[calls[i].token].event =>
                    /\ outstanding_replies[calls[i].token].message.mtype = "reply"
                    /\ outstanding_replies[calls[i].token].message.token = calls[i].token
                    /\ InSeq(outstanding_replies[calls[i].token].message, Received)
              /\ ~outstanding_replies[calls[i].token].event =>
                    \A k \in 1..Len(Received) :
                        ~(Received[k].mtype = "reply" /\ Received[k].token = calls[i].token)

\* C1 witness: one request has returned on its reply while another request,
\* with another token, is still waiting, unresolved.
C1_Witness ==
    \E i, j \in 1..Len(calls) :
        /\ calls[i].pc = "returned"
        /\ Waiting(j)
        /\ calls[i].token # calls[j].token
        /\ ~outstanding_replies[calls[j].token].event

\* C2: each token is strictly greater than every token allocated before it,
\* the first is 1, no two outstanding requests share a token, and every entry
\* of the pending-request table belongs to exactly one outstanding request.
C2_TokensStrictlyIncrease ==
    /\ \A i, j \in 1..Len(calls) : i < j => calls[i].token < calls[j].token
    /\ Len(calls) > 0 => calls[1].token = 1
    /\ \A i \in 1..Len(calls) : calls[i].token < next_token
    /\ \A i, j \in 1..Len(calls) :
          (i # j /\ Waiting(i) /\ Waiting(j)) => calls[i].token # calls[j].token
    /\ \A tk \in DOMAIN outstanding_replies :
          Cardinality({i \in 1..Len(calls) : Waiting(i) /\ calls[i].token = tk}) = 1

\* C2 witness: two requests are outstanding at once.
C2_Witness ==
    \E i, j \in 1..Len(calls) : i # j /\ Waiting(i) /\ Waiting(j)

\* The update frames server s has sent for assignment m, and whether a task
\* of m's fan-out is still queued.
UpdatesFor(s, m) ==
    {i \in 1..Len(outLog[s]) : outLog[s][i].mtype = "update" /\ outLog[s][i].mut = m}
Pending(m) == \E i \in 1..Len(ready) : ready[i].mut = m

\* C3: for every assignment, no server sends more than one update frame, and
\* once the fan-out has run every server whose membership subscribed to the
\* property has sent exactly one: {object: its id, property, value}.
C3_FanOutExactlyOnce ==
    \A m \in 1..Len(muts) :
        /\ \A s \in Servers : Cardinality(UpdatesFor(s, m)) <= 1
        /\ ~Pending(m) =>
              \A mi \in muts[m].subs :
                  \E i \in UpdatesFor(memberships[mi].server, m) :
                      outLog[memberships[mi].server][i] =
                          Frame("update", NoToken, memberships[mi].object_id,
                                muts[m].p, muts[m].val, <<>>, "", m)

\* C3 witness: an assignment to a property a membership subscribes to, whose
\* fan-out has run.
C3_Witness ==
    \E m \in 1..Len(muts) : ~Pending(m) /\ muts[m].subs # {}

\* C4: the step that runs Server.update(object_id, property, value) on server
\* s appends one update frame to s's connection if and only if the property is
\* in the subscription list of s's membership for object_id, and writes
\* nothing to any other connection.
C4_UpdateStep ==
    (ready # <<>> /\ Head(ready).kind = "update" /\ ready' = Tail(ready)) =>
        LET tk == Head(ready)
            sub == InSeq(tk.p, memberships[objects[tk.s][tk.id]].subscriptions)
        IN  /\ sub => /\ Len(outLog'[tk.s]) = Len(outLog[tk.s]) + 1
                      /\ outLog'[tk.s][Len(outLog'[tk.s])].mtype = "update"
                      /\ outLog'[tk.s][Len(outLog'[tk.s])].object = tk.id
                      /\ outLog'[tk.s][Len(outLog'[tk.s])].property = tk.p
            /\ ~sub => outLog'[tk.s] = outLog[tk.s]
            /\ \A s2 \in Servers \ {tk.s} : outLog'[s2] = outLog[s2]

C4_UpdateIffSubscribed == [][C4_UpdateStep]_vars

\* C4 witness: the shared object T was assigned; server 1, whose membership
\* subscribes, sent the update, and server 2, whose membership does not,
\* sent none.
C4_Witness ==
    \E m \in 1..Len(muts) :
        /\ muts[m].o = "T"
        /\ ~Pending(m)
        /\ UpdatesFor(1, m) # {}
        /\ UpdatesFor(2, m) = {}
        /\ ~InSeq(muts[m].p, memberships[objects[2][IdOf(2)]].subscriptions)

\* The handler at the head of the queue runs in this step.
HandlerStep == handled' # handled

\* C5: after the server handles unsubscribe(object, [p]) on a registered
\* object, p is no longer in that membership's subscription list.
C5_UnsubscribeStep ==
    (HandlerStep /\ Head(ready).frame.mtype = "unsubscribe"
       /\ Has(objects[Head(ready).s], Head(ready).frame.object)) =>
        \A i \in 1..Len(Head(ready).frame.properties) :
            ~InSeq(Head(ready).frame.properties[i],
                   memberships'[objects[Head(ready).s][Head(ready).frame.object]]
                       .subscriptions)

C5_UnsubscribeRemoves == [][C5_UnsubscribeStep]_vars

\* How many times handled subscribe frames of server s named p for object id.
SubscribeCount(s, id, p) ==
    Cardinality({ik \in (1..Len(handled[s])) \X (1..2) :
        /\ handled[s][ik[1]].f.mtype = "subscribe"
        /\ handled[s][ik[1]].f.object = id
        /\ ik[2] <= Len(handled[s][ik[1]].f.properties)
        /\ handled[s][ik[1]].f.properties[ik[2]] = p})

NoDuplicates(seq) == \A i, j \in 1..Len(seq) : seq[i] = seq[j] => i = j

\* C6: a subscription list holds each name once, however often it was
\* subscribed, and an assignment never delivers two update frames to a peer:
\* a subscribed membership gets exactly one.
C6_SubscribeIdempotent ==
    /\ \A mi \in 1..Len(memberships) : NoDuplicates(memberships[mi].subscriptions)
    /\ \A m \in 1..Len(muts), mi \in 1..Len(memberships) :
          (mi \in muts[m].subs /\ ~Pending(m)) =>
              Cardinality(UpdatesFor(memberships[mi].server, m)) = 1

\* C6 witness: "value" of T was subscribed on connection 2 twice in one frame
\* and again in a second frame, then T was assigned and the fan-out has run.
C6_Witness ==
    /\ SubscribeCount(PeerConn, PeerId, "value") >= 4
    /\ \E m \in 1..Len(muts) :
          /\ ~Pending(m)
          /\ objects[PeerConn][PeerId] \in muts[m].subs
          /\ Cardinality(UpdatesFor(PeerConn, m)) = 1

\* C7: a get or set frame for an unregistered object id is answered "no such
\* object", and one for a registered object without the named property is
\* answered "no such property".
C7_ErrorStep ==
    (HandlerStep /\ Head(ready).frame.mtype \in {"get", "set"}
       /\ Head(ready).frame.token # NoToken) =>
        LET s == Head(ready).s
            f == Head(ready).frame
            answer(status) ==
                outLog'[s] = Append(outLog[s],
                    Frame("reply", f.token, 0, "", NoVal, <<>>, status, 0))
        IN  IF ~Has(objects[s], f.object)
              THEN answer("no such object")
              ELSE ~Has(properties[memberships[objects[s][f.object]].object_val],
                        f.property)
                   => answer("no such property")

C7_ErrorStatuses == [][C7_ErrorStep]_vars

\* The value of property p of object o after the first n assignments.
StoredAt(o, p, n) ==
    LET ks == {k \in 1..n : muts[k].o = o /\ muts[k].p = p}
    IN  IF ks = {}
          THEN InitialProperties[o][p]
          ELSE muts[CHOOSE k \in ks : \A k2 \in ks : k2 <= k].val

\* The server's record of handling the frame of client call i.
EntryOf(i) ==
    handled[ClientConn][CHOOSE k \in 1..Len(handled[ClientConn]) :
                            handled[ClientConn][k].f.token = calls[i].token]

ObjectOfCall(i) == memberships[objects[ClientConn][calls[i].object]].object_val

\* A get that returned, made after a set of the same property had returned.
GetAfterSet(i, j) ==
    /\ calls[i].kind = "set"
    /\ calls[j].kind = "get"
    /\ i \in calls[j].after
    /\ calls[j].pc = "returned"
    /\ calls[i].object = calls[j].object
    /\ calls[i].property = calls[j].property

NoWriteBetween(i, j) ==
    \A k \in (EntryOf(i).n + 1)..EntryOf(j).n :
        ~(muts[k].o = ObjectOfCall(j) /\ muts[k].p = calls[j].property)

\* C8 as stated: once set(o, p, v) has returned, a subsequent get(o, p) on
\* the same connection returns v.
C8_GetAfterSetReturnsV ==
    \A i, j \in 1..Len(calls) :
        GetAfterSet(i, j) => calls[j].result = calls[i].value

\* C8 as amended: get returns the value the server stores when it handles the
\* get (6 for T as created), and a get after a returned set(o, p, v) returns v
\* unless another assignment to p of that object took effect in between.
C8_GetReturnsStored ==
    /\ \A j \in 1..Len(calls) :
          (calls[j].kind = "get" /\ calls[j].pc = "returned") =>
              calls[j].result =
                  StoredAt(ObjectOfCall(j), calls[j].property, EntryOf(j).n)
    /\ \A i, j \in 1..Len(calls) :
          (GetAfterSet(i, j) /\ NoWriteBetween(i, j)) =>
              calls[j].result = calls[i].value

\* C8 witness: set(1, "value", 7) returned, and the get made after it
\* returned 7.
C8_Witness ==
    \E i, j \in 1..Len(calls) :
        /\ GetAfterSet(i, j)
        /\ NoWriteBetween(i, j)
        /\ calls[j].result = IntVal(7)

\* C9: the "objects" property of each server's Universe is the list of the
\* ids passed to add_object on that server, in call order.
C9_UniverseListsAdded ==
    \A s \in up :
        /\ properties[Universe(s)]["objects"].k = "ref"
        /\ lists[properties[Universe(s)]["objects"].v] = added[s]

IsUnknownToServer(e) == e.f.mtype \notin ServerMtypes
IsUnknownToClient(f) == f.mtype \notin {"reply", "update"}

\* C10: for both engines, each received frame whose mtype has no handler
\* invokes the fallback exactly once and raises no error.
C10_UnknownFallbackOnly ==
    /\ \A s \in Servers : fallback.server[s] = Count(handled[s], IsUnknownToServer)
    /\ fallback.client = Count(Received, IsUnknownToClient)
    /\ \A e \in errs : e.exc # "UnboundLocalError"

\* The step in which Client.receive handles a reply frame whose token has no
\* entry in the pending-request table.
UnknownReplyStep ==
    /\ rd[ClientConn] < Len(outLog[ClientConn])
    /\ rd'[ClientConn] = rd[ClientConn] + 1
    /\ Inbound.mtype = "reply"
    /\ ~Has(outstanding_replies, Inbound.token)

\* C11: a reply frame whose token has no entry in the pending-request table
\* raises no error and resolves or alters no pending request.
C11_UnknownReplyStepOk ==
    UnknownReplyStep =>
        /\ errs' = errs
        /\ outstanding_replies' = outstanding_replies
        /\ calls' = calls

C11_UnknownReplyIsFallback == [][C11_UnknownReplyStepOk]_vars

\* The step in which Client.receive handles an update frame.
UpdateFrameStep ==
    /\ rd[ClientConn] < Len(outLog[ClientConn])
    /\ rd'[ClientConn] = rd[ClientConn] + 1
    /\ Inbound.mtype = "update"

\* C12: an update frame raises no error, whether a callback is registered
\* for its property on the proxy of its object (then the callback is invoked)
\* or not (then the frame is a no-op).
C12_UpdateStepOk == UpdateFrameStep => errs' = errs

C12_UpdateDispatched == [][C12_UpdateStepOk]_vars

\* The server has handled every frame written on connection s.
Quiet(s) ==
    /\ c2s[s] = <<>>
    /\ \A i \in 1..Len(ready) : ~(ready[i].kind = "receive" /\ ready[i].s = s)

\* C13: Object.subscribe stores each callback in the proxy and sends a
\* subscribe frame naming the keys of the mapping: once the server has handled
\* what the client wrote, every property with a callback in the proxy of a
\* registered object is in the server's subscription list for that object.
C13_ProxySubscribeReachesServer ==
    Quiet(ClientConn) =>
        \A id \in DOMAIN proxies : \A p \in proxies[id] :
            Has(objects[ClientConn], id) =>
                InSeq(p, memberships[objects[ClientConn][id]].subscriptions)

\* C14: a get or set call returns normally only on a reply whose status is
\* "success"; any other status reaches the caller as a failure.
C14_NonSuccessSurfaced ==
    \A i \in 1..Len(calls) :
        calls[i].pc = "returned" => calls[i].reply.status = "success"

\* C15: on every connection the Universe is registered under id 0, the first
\* frame the server sends is identify, and the server has handled no inbound
\* frame before it has sent identify.
C15_IdentifyFirst ==
    \A s \in up :
        /\ Has(objects[s], 0)
        /\ memberships[objects[s][0]].object_val = Universe(s)
        /\ outLog[s] # <<>> => outLog[s][1] = IdentifyFrame
        /\ handled[s] # <<>> => outLog[s] # <<>>

\* C15 witness: connection 2, accepted after connection 1, has handled
\* inbound frames and has sent identify, then a reply and an update frame.
C15_Witness ==
    /\ Len(outLog[PeerConn]) >= 3
    /\ \E i, j \in 2..Len(outLog[PeerConn]) :
          /\ outLog[PeerConn][i].mtype = "reply"
          /\ outLog[PeerConn][j].mtype = "update"

\* Property p of object o did not exist before assignment m (nor at creation).
Creates(m) ==
    /\ ~Has(InitialProperties[muts[m].o], muts[m].p)
    /\ \A k \in 1..(m - 1) : ~(muts[k].o = muts[m].o /\ muts[k].p = muts[m].p)

\* C16: every subscribe frame handled for a registered object has its names
\* in the subscription list and, with a token, was answered "success",
\* whether the object held the property or not; and once the fan-out of a set
\* that created a property has run, each peer subscribed to it was sent the
\* update frame.
C16_SubscribeBeforeCreate ==
    /\ \A s \in Servers : \A k \in 1..Len(handled[s]) :
          LET f == handled[s][k].f
          IN  (f.mtype = "subscribe" /\ Has(objects[s], f.object)) =>
                /\ \A i \in 1..Len(f.properties) :
                      InSeq(f.properties[i],
                            memberships[objects[s][f.object]].subscriptions)
                /\ f.token # NoToken =>
                      InSeq(Frame("reply", f.token, 0, "", NoVal, <<>>, "success", 0),
                            outLog[s])
    /\ \A m \in 1..Len(muts) :
          (Creates(m) /\ ~Pending(m)) =>
              \A mi \in muts[m].subs :
                  InSeq(Frame("update", NoToken, memberships[mi].object_id,
                              muts[m].p, muts[m].val, <<>>, "", m),
                        outLog[memberships[mi].server])

\* C16 witness: connection 2 subscribed to "colour" while T did not hold it,
\* a later set created it, and the update frame was sent on connection 2.
C16_Witness ==
    \E k \in 1..Len(handled[PeerConn]) : \E m \in 1..Len(muts) :
        /\ handled[PeerConn][k].f.mtype = "subscribe"
        /\ handled[PeerConn][k].n < m
        /\ Creates(m)
        /\ muts[m].p = "colour"
        /\ InSeq(Frame("update", NoToken, PeerId, "colour", IntVal(8), <<>>, "", m),
                 outLog[PeerConn])

\* C17: after the peer has closed the stream, run() has dispatched every
\* complete frame received before the close and terminates: it meets the end
\* of the stream once and never reads there again.
C17_RunEndsAtClose ==
    \A s \in Servers :
        /\ spins[s] > 0 => c2s[s] = <<>>
        /\ spins[s] <= 1


\* C18: a handler that awaits a request does not block frame processing.
\* Once mtype_identify has started (its first get is out), the replies are
\* dispatched while it is suspended, both nested gets resolve, and the
\* handler runs to its end.
HandlerStarted == Len(calls) >= 1
HandlerDone == Len(calls) = 2 /\ calls[2].pc = "returned" /\ calls[1].pc = "returned"
C18_HandlerCompletes == HandlerStarted ~> HandlerDone
C18_Witness ==
    /\ HandlerDone
    /\ calls[1].result = ListVal(<<0, ClientId>>)
    /\ calls[2].result # NoVal
    /\ rd[ClientConn] >= 4


\* C19: after any sequence of add_object calls an Object's membership list
\* holds at most one Membership per (server, object id) pair, the server's
\* objects entry for that id is that Membership, and one property change
\* leaves at most one update task per server and id.
C19_OneMembershipPerPair ==
    /\ \A o \in Heap : \A i, j \in 1..Len(servers[o]) :
          LET a == memberships[servers[o][i]]
              b == memberships[servers[o][j]]
          IN  /\ (a.server = b.server /\ a.object_id = b.object_id) => i = j
              /\ objects[a.server][a.object_id] = servers[o][i]
    /\ \A i, j \in 1..Len(ready) :
          (/\ ready[i].kind = "update"
           /\ ready[i].mut > 0
           /\ ready[j] = ready[i]) => i = j


\* C20: the update frames one connection carries for a property of an object
\* are in mutation order, and once every task has run the last of them
\* carries the property's final value.
UpdatesOf(s, id, p) ==
    SelectSeq(outLog[s], LAMBDA f : f.mtype = "update" /\ f.object = id /\ f.property = p)
C20_UpdatesInMutationOrder ==
    LET u == UpdatesOf(PeerConn, PeerId, "value")
    IN  /\ \A i, j \in 1..Len(u) : i < j => u[i].mut < u[j].mut
        /\ (ready = <<PollTask>> /\ waiters[PeerConn] = <<>> /\ u # <<>>)
              => u[Len(u)].value = properties["T"]["value"]


\* C21: every get, set, subscribe or unsubscribe frame the server handles is
\* answered by exactly one reply frame carrying the frame's token when the
\* token is not None, and by no frame when it is None.
C21_ReplyStep ==
    (HandlerStep
       /\ Head(ready).frame.mtype \in {"get", "set", "subscribe", "unsubscribe"}) =>
        LET s == Head(ready).s
            f == Head(ready).frame
            sent == SubSeq(outLog'[s], Len(outLog[s]) + 1, Len(outLog'[s]))
        IN  /\ \A c \in Servers \ {s} : outLog'[c] = outLog[c]
            /\ IF f.token = NoToken
                 THEN sent = <<>>
                 ELSE /\ Len(sent) = 1
                      /\ sent[1].mtype = "reply"
                      /\ sent[1].token = f.token

C21_ExactlyOneReply == [][C21_ReplyStep]_vars

====
